---- MODULE Spec2Model ----
(***************************************************************************)
(* Reconstruction of binary forms from their invariants                    *)
(* (sage/rings/invariants/reconstruction.py).                              *)
(*                                                                         *)
(* The library is a set of pure functions.  Each function is an operator   *)
(* that maps its arguments to an outcome record                            *)
(*     [kind, msg, value, calls]                                           *)
(* kind  : "ok" or the name of the exception that ends the call,           *)
(* msg   : the exception's message, as its sequence of words,              *)
(* value : the returned value (a coefficient tuple, a list, a form),       *)
(* calls : the routines and steps executed, in order.                      *)
(* The state machine is a caller that picks a function and arguments,      *)
(* runs the call to its end and looks at the outcome.                      *)
(*                                                                         *)
(* A field K is named by its characteristic: 0 is QQ, a prime p is GF(p).  *)
(* An element is a pair <<n, d>>: the fraction n/d in lowest terms with    *)
(* d > 0 over QQ, the residue <<n, 1>> with 0 <= n < p over GF(p).         *)
(* Arithmetic is exact; TLC's integers are 32 bits wide and an overflow    *)
(* stops the run, so rational arguments are the ones whose computation     *)
(* fits.                                                                   *)
(***************************************************************************)
EXTENDS Integers, Sequences, FiniteSets

VARIABLES pc, call, result

vars == <<pc, call, result>>

(***************************************************************************)
(* Exact arithmetic of the domain K                                        *)
(***************************************************************************)
Abs(n) == IF n < 0 THEN -n ELSE n

RECURSIVE GCD(_, _)
GCD(a, b) == IF b = 0 THEN a ELSE GCD(b, a % b)

LCM(a, b) == (a \div GCD(a, b)) * b

Norm(ch, n, d) ==
    IF ch = 0
    THEN LET g == GCD(Abs(n), Abs(d))
             s == IF d < 0 THEN -1 ELSE 1
         IN  <<(s * n) \div g, (s * d) \div g>>
    ELSE <<n % ch, 1>>

FromInt(ch, k) == Norm(ch, k, 1)

Zero(ch) == FromInt(ch, 0)

One(ch) == FromInt(ch, 1)

IsZero(x) == x[1] = 0

Add(ch, x, y) ==
    IF ch = 0
    THEN LET l == LCM(x[2], y[2])
         IN  Norm(0, x[1] * (l \div x[2]) + y[1] * (l \div y[2]), l)
    ELSE <<(x[1] + y[1]) % ch, 1>>

Neg(ch, x) == Norm(ch, -x[1], x[2])

Sub(ch, x, y) == Add(ch, x, Neg(ch, y))

Mul(ch, x, y) ==
    IF ch = 0
    THEN LET g1 == GCD(Abs(x[1]), y[2])
             g2 == GCD(Abs(y[1]), x[2])
         IN  <<(x[1] \div g1) * (y[1] \div g2), (x[2] \div g2) * (y[2] \div g1)>>
    ELSE <<(x[1] * y[1]) % ch, 1>>

RECURSIVE NatPow(_, _, _)
NatPow(ch, x, e) == IF e = 0 THEN One(ch) ELSE Mul(ch, x, NatPow(ch, x, e - 1))

\* The inverse of a nonzero element.
Inv(ch, x) ==
    IF ch = 0
    THEN IF x[1] < 0 THEN <<-x[2], -x[1]>> ELSE <<x[2], x[1]>>
    ELSE NatPow(ch, x, ch - 2)

Div(ch, x, y) == Mul(ch, x, Inv(ch, y))

\* x ** e for an integer e; x ** 0 is 1 also for x = 0.
Pow(ch, x, e) == IF e >= 0 THEN NatPow(ch, x, e) ELSE NatPow(ch, Inv(ch, x), -e)

MulInt(ch, k, x) == Mul(ch, FromInt(ch, k), x)

(***************************************************************************)
(* Outcomes                                                                *)
(***************************************************************************)
Returned(v, done) == [kind |-> "ok", msg |-> <<>>, value |-> v, calls |-> done]

Raised(k, m, done) == [kind |-> k, msg |-> m, value |-> <<>>, calls |-> done]

\* An outcome of a callee, seen by its caller: the callee's steps follow the
\* caller's own.
After(done, out) == [out EXCEPT !.calls = done \o out.calls]

(***************************************************************************)
(* Factorization and gcd, as the domain provides them                      *)
(***************************************************************************)
\* The multiplicity of p in the positive integer n.
RECURSIVE Multiplicity(_, _)
Multiplicity(p, n) == IF n % p = 0 THEN 1 + Multiplicity(p, n \div p) ELSE 0

\* n with every factor p removed.
RECURSIVE Without(_, _)
Without(p, n) == IF n % p = 0 THEN Without(p, n \div p) ELSE n

\* The primes that divide n, by trial division from p on.
RECURSIVE PrimeDivisorsFrom(_, _)
PrimeDivisorsFrom(n, p) ==
    IF n = 1 THEN {}
    ELSE IF p * p > n THEN {n}
    ELSE IF n % p = 0 THEN {p} \cup PrimeDivisorsFrom(Without(p, n), p + 1)
    ELSE PrimeDivisorsFrom(n, p + 1)

PrimeDivisors(n) == PrimeDivisorsFrom(n, 2)

\* dict(I.factor()) of a nonzero element: prime |-> exponent, over the primes
\* that occur.  A nonzero element of a finite field is a unit.
FactorDict(ch, I) ==
    IF ch = 0
    THEN [p \in PrimeDivisors(Abs(I[1])) \cup PrimeDivisors(I[2]) |->
             Multiplicity(p, Abs(I[1])) - Multiplicity(p, I[2])]
    ELSE <<>>

\* gcd of a list: over QQ the gcd of the numerators over the lcm of the
\* denominators; over a field GF(p) 1 unless every entry is 0.
RECURSIVE NumGcd(_)
NumGcd(l) == IF l = <<>> THEN 0 ELSE GCD(Abs(Head(l)[1]), NumGcd(Tail(l)))

RECURSIVE DenLcm(_)
DenLcm(l) == IF l = <<>> THEN 1 ELSE LCM(Head(l)[2], DenLcm(Tail(l)))

GcdList(ch, l) ==
    IF ch = 0
    THEN Norm(0, NumGcd(l), DenLcm(l))
    ELSE IF \A i \in 1..Len(l) : IsZero(l[i]) THEN Zero(ch) ELSE One(ch)

RECURSIVE SeqMin(_)
SeqMin(s) ==
    IF Len(s) = 1 THEN s[1]
    ELSE LET m == SeqMin(Tail(s)) IN IF s[1] < m THEN s[1] ELSE m

FactorError == <<"factorization", "of", "0", "is", "not", "defined">>

(***************************************************************************)
(* reduce_invariants                                                       *)
(***************************************************************************)
\* factors[i][p] after the has_key fill: 0 for a prime the entry lacks.
FilledExponent(D, p) == IF p \in DOMAIN D THEN D[p] ELSE 0

\* A quotient rounded towards zero.
Truncated(a, b) == IF a < 0 THEN -((-a) \div b) ELSE a \div b

\* The prime power with the quotients rounded towards zero.
PrimePowerTruncating(ch, factors, weights, p) ==
    Pow(ch, FromInt(ch, p),
        SeqMin([i \in 1..Len(weights) |->
                   Truncated(FilledExponent(factors[i], p), weights[i])]))

\* p ** min([factors[i][p] // weights[i] for i in range(n)])
PrimePower(ch, factors, weights, p) ==
    Pow(ch, FromInt(ch, p),
        SeqMin([i \in 1..Len(weights) |->
                   FilledExponent(factors[i], p) \div weights[i]]))

\* The loop over the primes of gcd(invariants): the product of the prime
\* powers.
RECURSIVE ScalarOver(_, _, _, _)
ScalarOver(ch, factors, weights, primes) ==
    IF primes = {} THEN One(ch)
    ELSE LET p == CHOOSE q \in primes : \A r \in primes : q <= r
         IN  Mul(ch, PrimePower(ch, factors, weights, p),
                 ScalarOver(ch, factors, weights, primes \ {p}))

\* An entry divided by the scalar to the last weight.
RescaledByLastWeight(ch, invariants, scalar, weights, i) ==
    Mul(ch, invariants[i], Pow(ch, scalar, -weights[Len(weights)]))

\* invariants[i]*scalar**-weights[i]
Rescaled(ch, invariants, scalar, weights, i) ==
    Mul(ch, invariants[i], Pow(ch, scalar, -weights[i]))

reduce_invariants(ch, invariants, weights) ==
    LET done == <<"reduce_invariants">>
        g == GcdList(ch, invariants)
    IN  IF \E i \in 1..Len(invariants) : IsZero(invariants[i])
        THEN Raised("ArithmeticError", FactorError, done)
        ELSE IF IsZero(g)
        THEN Raised("ArithmeticError", FactorError, done)
        ELSE IF Len(weights) > Len(invariants)
        THEN Raised("IndexError", <<"list", "index", "out", "of", "range">>, done)
        ELSE LET factors == [i \in 1..Len(invariants) |-> FactorDict(ch, invariants[i])]
                 scalar == ScalarOver(ch, factors, weights, DOMAIN FactorDict(ch, g))
             IN  Returned([i \in 1..Len(weights) |->
                              Rescaled(ch, invariants, scalar, weights, i)], done)

(***************************************************************************)
(* Python values the routines see                                          *)
(***************************************************************************)
\* An argument is a single value of K or a list of values.
Scalar(x) == [isList |-> FALSE, items |-> <<x>>]

ListOf(l) == [isList |-> TRUE, items |-> l]

\* arg == 0: a list never equals the number 0.
EqualsZero(arg) == ~arg.isList /\ IsZero(arg.items[1])

\* A keyword argument the caller leaves out takes the routine's default.
Absent == "absent"

Keyword(arg, default) == IF arg = Absent THEN default ELSE arg

\* K=None
None == -1

\* str(n), 0 <= n <= 12
DecStr(n) == <<"0", "1", "2", "3", "4", "5", "6", "7", "8", "9", "10", "11", "12">>[n + 1]

\* A coefficient the routines write as a Python integer.
PyInt(k) == <<k, 1>>

PyInts(t) == [i \in 1..Len(t) |-> PyInt(t[i])]

(***************************************************************************)
(* binary_quadratic_from_invariants, binary_cubic_from_invariants          *)
(***************************************************************************)
\* A routine with its two tuples exchanged.
QuadraticExchanged(discriminant, invariant_choice) ==
    LET done == <<"binary_quadratic_from_invariants">>
        choice == Keyword(invariant_choice, "default")
    IN  IF choice \notin {"default", "discriminant"}
        THEN Raised("ValueError",
                    <<"Unknown", "choice", "of", "invariants", choice,
                      "for", "a", "binary", "quadratic.">>, done)
        ELSE IF EqualsZero(discriminant)
        THEN Returned(PyInts(<<0, 1, 0>>), done)
        ELSE Returned(PyInts(<<1, 0, 0>>), done)

binary_quadratic_from_invariants(discriminant, invariant_choice) ==
    LET done == <<"binary_quadratic_from_invariants">>
        choice == Keyword(invariant_choice, "default")
    IN  IF choice \notin {"default", "discriminant"}
        THEN Raised("ValueError",
                    <<"Unknown", "choice", "of", "invariants", choice,
                      "for", "a", "binary", "quadratic.">>, done)
        ELSE IF EqualsZero(discriminant)
        THEN Returned(PyInts(<<1, 0, 0>>), done)
        ELSE Returned(PyInts(<<0, 1, 0>>), done)

binary_cubic_from_invariants(discriminant, invariant_choice) ==
    LET done == <<"binary_cubic_from_invariants">>
        choice == Keyword(invariant_choice, "default")
    IN  IF choice \notin {"default", "discriminant"}
        THEN Raised("ValueError",
                    <<"Unknown", "choice", "of", "invariants", choice,
                      "for", "a", "binary", "cubic">>, done)
        ELSE IF EqualsZero(discriminant)
        THEN Raised("ValueError",
                    <<"No", "unique", "reconstruction", "possible", "for", "binary",
                      "cubics", "with", "a", "double", "root.">>, done)
        ELSE Returned(PyInts(<<0, 1, -1, 0>>), done)

(***************************************************************************)
(* Square roots in K                                                       *)
(***************************************************************************)
\* The integer square root of n >= 0, by bisection.
RECURSIVE ISqrtIn(_, _, _)
ISqrtIn(n, lo, hi) ==
    IF lo >= hi THEN lo
    ELSE LET mid == (lo + hi + 1) \div 2
         IN  IF mid * mid <= n THEN ISqrtIn(n, mid, hi) ELSE ISqrtIn(n, lo, mid - 1)

ISqrt(n) == ISqrtIn(n, 0, IF n < 46340 THEN n ELSE 46340)

IsPerfectSquare(n) == n >= 0 /\ ISqrt(n) * ISqrt(n) = n

\* x.is_square()
IsSquare(ch, x) ==
    IF ch = 0
    THEN IsPerfectSquare(x[1]) /\ IsPerfectSquare(x[2])
    ELSE \E r \in 0..(ch - 1) : (r * r) % ch = x[1]

\* sqrt(x) of a square: the nonnegative root over QQ, the least residue that
\* squares to x over GF(p).
Sqrt(ch, x) ==
    IF ch = 0
    THEN <<ISqrt(x[1]), ISqrt(x[2])>>
    ELSE <<CHOOSE r \in 0..(ch - 1) :
               (r * r) % ch = x[1] /\ \A q \in 0..(r - 1) : (q * q) % ch # x[1], 1>>

\* sqrt(x) ** e as c * sqrt(x) ** (0 or 1): an odd power of the root of a
\* non-square lies outside K (irr).
SqrtPow(ch, x, e) ==
    IF IsSquare(ch, x)
    THEN [c |-> Pow(ch, Sqrt(ch, x), e), irr |-> FALSE]
    ELSE IF e % 2 = 0
    THEN [c |-> Pow(ch, x, e \div 2), irr |-> FALSE]
    ELSE [c |-> Pow(ch, x, (e - 1) \div 2), irr |-> TRUE]

InK(x) == [c |-> x, irr |-> FALSE]

RECURSIVE binomial(_, _)
binomial(n, k) == IF k = 0 THEN 1 ELSE (binomial(n, k - 1) * (n - k + 1)) \div k

(***************************************************************************)
(* binary_quintic_from_invariants                                          *)
(***************************************************************************)
\* M, N, R2 of the Clebsch invariants A, B, C
ClebschM(K, A, B, C) ==
    Sub(K, Mul(K, MulInt(K, 2, A), B), MulInt(K, 3, C))

ClebschN(K, A, B, C) ==
    Mul(K, Inv(K, FromInt(K, 2)), Sub(K, Mul(K, A, C), Pow(K, B, 2)))

ClebschR2(K, A, B, C) ==
    LET M == ClebschM(K, A, B, C)
        N == ClebschN(K, A, B, C)
    IN  Mul(K, Neg(K, Inv(K, FromInt(K, 2))),
            Add(K, Sub(K, Mul(K, A, Pow(K, N, 2)),
                          Mul(K, Mul(K, MulInt(K, 2, B), M), N)),
                   Mul(K, C, Pow(K, M, 2))))

\* A scale list whose last branch has A**-8 for A**-9.
ScaleListSkewed(K, A, B, M, R, scaling) ==
    IF scaling # "normalized"
    THEN [i \in 0..5 |-> InK(One(K))]
    ELSE IF IsZero(M)
    THEN [i \in 0..5 |->
             InK(Mul(K, Pow(K, A, -14), Pow(K, Div(K, R, Pow(K, A, 3)), i)))]
    ELSE IF IsZero(R)
    THEN [i \in 0..5 |-> SqrtPow(K, A, i - 18)]
    ELSE IF IsZero(A)
    THEN [i \in 0..5 |->
             InK(Mul(K, Pow(K, R, -2), Pow(K, Div(K, R, Pow(K, B, 2)), i)))]
    ELSE [i \in 0..5 |->
             InK(Mul(K, Pow(K, A, -8), Pow(K, Div(K, R, Pow(K, A, 4)), i)))]

\* The scale list of scaling='normalized' in the branch taken; [1,1,1,1,1,1]
\* otherwise.
ScaleList(K, A, B, M, R, scaling) ==
    IF scaling # "normalized"
    THEN [i \in 0..5 |-> InK(One(K))]
    ELSE IF IsZero(M)
    THEN [i \in 0..5 |->
             InK(Mul(K, Pow(K, A, -14), Pow(K, Div(K, R, Pow(K, A, 3)), i)))]
    ELSE IF IsZero(R)
    THEN [i \in 0..5 |-> SqrtPow(K, A, i - 18)]
    ELSE IF IsZero(A)
    THEN [i \in 0..5 |->
             InK(Mul(K, Pow(K, R, -2), Pow(K, Div(K, R, Pow(K, B, 2)), i)))]
    ELSE [i \in 0..5 |->
             InK(Mul(K, Pow(K, A, -9), Pow(K, Div(K, R, Pow(K, A, 4)), i)))]

Half(K) == Inv(K, FromInt(K, 2))

Third(K) == Inv(K, FromInt(K, 3))

\* 2*K(3)**-1*A**2 - B
TwoThirdsA2MinusB(K, A, B) ==
    Sub(K, Mul(K, MulInt(K, 2, Third(K)), Pow(K, A, 2)), B)

\* N*A - M*B
NAMinusMB(K, A, B, M, N) == Sub(K, Mul(K, N, A), Mul(K, M, B))

\* a[1], B0, B1, C0, C1, D, Delta with alpha and gamma as coordinates (M = 0)
\* and with alpha and beta as coordinates (M # 0).
Coordinates(K, A, B, C, M, N, R) ==
    IF IsZero(M)
    THEN [D |-> Neg(K, N),
          Delta |-> C,
          a1 |-> Sub(K, Mul(K, Mul(K, Mul(K, TwoThirdsA2MinusB(K, A, B), N), B),
                               Half(K)),
                        Mul(K, Pow(K, N, 2), Half(K))),
          B0 |-> Mul(K, Mul(K, MulInt(K, 2, Third(K)), A), R),
          B1 |-> Mul(K, Mul(K, Mul(K, A, N), B), Third(K)),
          C0 |-> Mul(K, MulInt(K, 2, Third(K)), R),
          C1 |-> Mul(K, B, N)]
    ELSE [D |-> Neg(K, M),
          Delta |-> A,
          a1 |-> Sub(K, Mul(K, Mul(K, TwoThirdsA2MinusB(K, A, B),
                                      NAMinusMB(K, A, B, M, N)), Half(K)),
                        Mul(K, M, Sub(K, Mul(K, N, Half(K)),
                                         Mul(K, Mul(K, M, A), Third(K))))),
          B0 |-> R,
          B1 |-> Mul(K, Half(K), NAMinusMB(K, A, B, M, N)),
          C0 |-> Zero(K),
          C1 |-> Neg(K, M)]

\* -D*Bk - K(2)**-1*Delta*a[k]
Middle(K, c, Bk, ak) ==
    Sub(K, Mul(K, Neg(K, c.D), Bk), Mul(K, Mul(K, Half(K), c.Delta), ak))

\* D**2*Ck + D*Delta*Bk + K(4)**-1*Delta**2*a[k]
Last(K, c, Ck, Bk, ak) ==
    Add(K, Add(K, Mul(K, Pow(K, c.D, 2), Ck), Mul(K, Mul(K, c.D, c.Delta), Bk)),
           Mul(K, Mul(K, Inv(K, FromInt(K, 4)), Pow(K, c.Delta, 2)), ak))

\* a[0..5] of the common tail.
CommonTail(K, c, a0) ==
    [i \in 0..5 |->
        CASE i = 0 -> a0
          [] i = 1 -> c.a1
          [] i = 2 -> Middle(K, c, c.B0, a0)
          [] i = 3 -> Middle(K, c, c.B1, c.a1)
          [] i = 4 -> Last(K, c, c.C0, c.B0, a0)
          [] OTHER -> Last(K, c, c.C1, c.B1, c.a1)]

\* coeffs[i] = K((-1)**i*binomial(5,i)*scale[5-i]*a[i]); a product outside K
\* does not convert.
Coefficients(K, a, scale) ==
    [j \in 1..6 |->
        IF scale[6 - j].irr THEN Zero(K)
        ELSE Mul(K, MulInt(K, (IF j % 2 = 1 THEN 1 ELSE -1) * binomial(5, j - 1),
                           scale[6 - j].c), a[j - 1])]

\* The return: the coefficients, divided by their gcd for scaling='coprime'.
Finish(K, a, scale, coeffs, g, scaling, done) ==
    IF \E i \in 0..5 : scale[5 - i].irr /\ ~IsZero(a[i])
    THEN Raised("TypeError", <<"unable", "to", "convert", "to", "K">>, done)
    ELSE IF scaling # "coprime"
    THEN Returned(coeffs, done)
    ELSE IF IsZero(g)
    THEN Raised("ZeroDivisionError", <<"division", "by", "zero">>, done \o <<"gcd">>)
    ELSE Returned([j \in 1..6 |-> Div(K, coeffs[j], g)], done \o <<"gcd">>)

WithCoefficients(K, a, scale, coeffs, scaling, done) ==
    Finish(K, a, scale, coeffs, GcdList(K, coeffs), scaling, done)

WithTail(K, a, scale, scaling, done) ==
    WithCoefficients(K, a, scale, Coefficients(K, a, scale), scaling, done)

GeneralFormula(K, A, B, C, M, N, R, scaling, done) ==
    WithTail(K, CommonTail(K, Coordinates(K, A, B, C, M, N, R),
                           Mul(K, TwoThirdsA2MinusB(K, A, B), R)),
             ScaleList(K, A, B, M, R, scaling), scaling,
             done \o <<"general_formula">>)

Threefold ==
    <<"No", "unique", "reconstruction", "possible", "for", "quintics", "with",
      "a", "treefold", "linear", "factor.">>

\* The case split on M, N, R, A, B: the leaf taken.  "raise" is the error of
\* the threefold linear factor, "formula" the general formula, and a tuple is
\* returned as it is.
Leaf(M, N, R, A, B) ==
    IF IsZero(M)
    THEN IF IsZero(N)
         THEN IF IsZero(A)
              THEN [to |-> "raise", tuple |-> <<>>]
              ELSE IF IsZero(B)
              THEN [to |-> "return", tuple |-> <<1, 0, 0, 0, 0, 1>>]
              ELSE [to |-> "return", tuple |-> <<0, 1, 0, 0, 1, 0>>]
         ELSE IF IsZero(A)
              THEN [to |-> "return", tuple |-> <<1, 0, 0, 0, 1, 0>>]
              ELSE [to |-> "formula", tuple |-> <<>>]
    ELSE IF IsZero(R)
         THEN IF IsZero(A)
              THEN [to |-> "return", tuple |-> <<1, 0, 10, 0, -15, 0>>]
              ELSE [to |-> "formula", tuple |-> <<>>]
         ELSE IF IsZero(A) /\ IsZero(B)
              THEN [to |-> "return", tuple |-> <<1, 0, 0, 1, 0, 0>>]
              ELSE [to |-> "formula", tuple |-> <<>>]

AtLeaf(K, q, leaf, scaling, done) ==
    IF leaf.to = "raise"
    THEN Raised("ValueError", Threefold, done)
    ELSE IF leaf.to = "return"
    THEN Returned(PyInts(leaf.tuple), done)
    ELSE GeneralFormula(K, q.A, q.B, q.C, q.M, q.N, q.R, scaling, done)

CaseSplit(K, q, scaling, done) ==
    IF q.error # <<>>
    THEN Raised("ValueError", q.error, done)
    ELSE AtLeaf(K, q, Leaf(q.M, q.N, q.R, q.A, q.B), scaling, done \o q.steps)

SyzygyError ==
    <<"Provided", "invariants", "do", "not", "satisfy", "the", "syzygy", "for",
      "Clebsch", "invariants", "of", "a", "binary", "quintic.">>

QuinticCountError ==
    <<"Incorrect", "number", "of", "invariants", "provided.", "This", "method",
      "requires", "3", "or", "4", "invariants.">>

Quantities(A, B, C, M, N, R, steps) ==
    [A |-> A, B |-> B, C |-> C, M |-> M, N |-> N, R |-> R, steps |-> steps,
     error |-> <<>>]

Invalid(error) ==
    [A |-> <<>>, B |-> <<>>, C |-> <<>>, M |-> <<>>, N |-> <<>>, R |-> <<>>,
     steps |-> <<>>, error |-> error]

\* A selection of R that rescales N by R2**3 for R2**4.
ChooseRSkewed(K, invariants, A, B, C, M, N, R2) ==
    IF Len(invariants) = 3
    THEN IF IsSquare(K, R2)
         THEN Quantities(A, B, C, M, N, Sqrt(K, R2), <<"sqrt">>)
         ELSE Quantities(Mul(K, R2, A), Mul(K, Pow(K, R2, 2), B),
                         Mul(K, Pow(K, R2, 3), C), Mul(K, Pow(K, R2, 3), M),
                         Mul(K, Pow(K, R2, 3), N), Pow(K, R2, 5), <<"rescale">>)
    ELSE IF Len(invariants) = 4
    THEN IF Pow(K, invariants[4], 2) # R2
         THEN Invalid(SyzygyError)
         ELSE Quantities(A, B, C, M, N, invariants[4], <<>>)
    ELSE Invalid(QuinticCountError)

\* R by the number of invariants: the root of R2, or R2**5 with A, B, C, M, N
\* rescaled when R2 is no square, for three; the fourth invariant, checked
\* against the syzygy, for four.
ChooseR(K, invariants, A, B, C, M, N, R2) ==
    IF Len(invariants) = 3
    THEN IF IsSquare(K, R2)
         THEN Quantities(A, B, C, M, N, Sqrt(K, R2), <<"sqrt">>)
         ELSE Quantities(Mul(K, R2, A), Mul(K, Pow(K, R2, 2), B),
                         Mul(K, Pow(K, R2, 3), C), Mul(K, Pow(K, R2, 3), M),
                         Mul(K, Pow(K, R2, 4), N), Pow(K, R2, 5), <<"rescale">>)
    ELSE IF Len(invariants) = 4
    THEN IF Pow(K, invariants[4], 2) # R2
         THEN Invalid(SyzygyError)
         ELSE Quantities(A, B, C, M, N, invariants[4], <<>>)
    ELSE Invalid(QuinticCountError)

Derive(K, invariants, A, B, C, scaling, done) ==
    CaseSplit(K, ChooseR(K, invariants, A, B, C, ClebschM(K, A, B, C),
                         ClebschN(K, A, B, C), ClebschR2(K, A, B, C)),
              scaling, done \o <<"M", "N", "R2">>)

CharacteristicError ==
    <<"No", "reconstruction", "of", "binary", "quintics", "implemented", "for",
      "fields", "of", "characteristic", "2,", "3", "or", "5.">>

\* From the unpacking of A, B, C on.
Reconstruct(K, invariants, scaling, done) ==
    IF Len(invariants) < 3
    THEN Raised("ValueError",
                <<"need", "more", "than", DecStr(Len(invariants)),
                  IF Len(invariants) = 1 THEN "value" ELSE "values",
                  "to", "unpack">>, done)
    ELSE IF K \in {2, 3, 5}
    THEN Raised("NotImplementedError", CharacteristicError, done)
    ELSE Derive(K, invariants, invariants[1], invariants[2], invariants[3],
                scaling, done)

\* After the reduction of scaling='coprime' (reduced: its outcome).
Reduced(K, reduced, scaling, done) ==
    IF reduced.kind # "ok"
    THEN After(done, reduced)
    ELSE Reconstruct(K, reduced.value, scaling, done \o reduced.calls)

\* A routine that reduces three or four invariants whatever the scaling is.
QuinticReducingAlways(ring, invariants, Karg, invariant_choice, scalingArg) ==
    IF Keyword(invariant_choice, "clebsch") \notin {"default", "clebsch"}
    THEN Raised("ValueError",
                <<"Unknown", "choice", "of", "invariants",
                  Keyword(invariant_choice, "clebsch"), "for", "a", "binary",
                  "quintic">>, <<"binary_quintic_from_invariants">>)
    ELSE IF Keyword(scalingArg, "none") \notin {"none", "normalized", "coprime"}
    THEN Raised("ValueError",
                <<"Unknown", "scaling", "option", "'", Keyword(scalingArg, "none"),
                  "'.">>, <<"binary_quintic_from_invariants">>)
    ELSE Reduced(IF Karg = None THEN ring ELSE Karg,
                 IF Len(invariants) \in {3, 4}
                 THEN reduce_invariants(ring, invariants,
                          IF Len(invariants) = 3 THEN <<1, 2, 3>> ELSE <<2, 4, 6, 9>>)
                 ELSE Returned(invariants, <<>>),
                 Keyword(scalingArg, "none"), <<"binary_quintic_from_invariants">>)

binary_quintic_from_invariants(ring, invariants, Karg, invariant_choice, scalingArg) ==
    IF Keyword(invariant_choice, "clebsch") \notin {"default", "clebsch"}
    THEN Raised("ValueError",
                <<"Unknown", "choice", "of", "invariants",
                  Keyword(invariant_choice, "clebsch"), "for", "a", "binary",
                  "quintic">>, <<"binary_quintic_from_invariants">>)
    ELSE IF Keyword(scalingArg, "none") \notin {"none", "normalized", "coprime"}
    THEN Raised("ValueError",
                <<"Unknown", "scaling", "option", "'", Keyword(scalingArg, "none"),
                  "'.">>, <<"binary_quintic_from_invariants">>)
    ELSE Reduced(IF Karg = None THEN ring ELSE Karg,
                 IF Keyword(scalingArg, "none") = "coprime" /\ Len(invariants) \in {3, 4}
                 THEN reduce_invariants(ring, invariants,
                          IF Len(invariants) = 3 THEN <<1, 2, 3>> ELSE <<2, 4, 6, 9>>)
                 ELSE Returned(invariants, <<>>),
                 Keyword(scalingArg, "none"), <<"binary_quintic_from_invariants">>)

(***************************************************************************)
(* binary_form_from_invariants                                             *)
(***************************************************************************)
CountError ==
    <<"Incorrect", "number", "of", "invariants", "provided.", "Only", "one",
      "invariant", "should", "be", "provided.">>

DegreeError(degree) ==
    <<"No", "reconstruction", "for", "binary", "forms", "of", DecStr(degree),
      "implemented.">>

\* sum([coeffs[i]*x**(degree-i)*z**i for i in range(degree+1)]) over the
\* fraction field of the invariants' universe: the terms that do not vanish.
Form(ring, degree, coeffs) ==
    {[coeff |-> Norm(ring, coeffs[i + 1][1], coeffs[i + 1][2]), x |-> degree - i, z |-> i] :
        i \in {j \in 0..degree : ~IsZero(Norm(ring, coeffs[j + 1][1], coeffs[j + 1][2]))}}

\* The degree-specific routine the dispatcher delegates to, with the
\* arguments it passes on.
Delegate(ring, degree, invariants, Karg, invariant_choice, scaling) ==
    IF degree \in {2, 3} /\ (Karg # None \/ scaling # Absent)
    THEN Raised("TypeError", <<"got", "an", "unexpected", "keyword", "argument">>, <<>>)
    ELSE IF degree = 2
    THEN binary_quadratic_from_invariants(ListOf(invariants), invariant_choice)
    ELSE IF degree = 3
    THEN binary_cubic_from_invariants(ListOf(invariants), invariant_choice)
    ELSE binary_quintic_from_invariants(ring, invariants, Karg, invariant_choice,
                                        scaling)

\* if as_form: ... else: return coeffs
Assemble(ring, degree, as_form, coeffs) ==
    IF coeffs.kind # "ok"
    THEN coeffs
    ELSE IF as_form
    THEN Returned(Form(ring, degree, coeffs.value), coeffs.calls)
    ELSE coeffs

\* A dispatcher that delegates without counting the invariants first.
DispatchWithoutCount(ring, degree, invariants, as_form, Karg, invariant_choice, scaling) ==
    IF degree \notin {2, 3, 5}
    THEN Raised("NotImplementedError", DegreeError(degree),
                <<"binary_form_from_invariants">>)
    ELSE Assemble(ring, degree, as_form,
                  After(<<"binary_form_from_invariants">>,
                        Delegate(ring, degree, invariants, Karg, invariant_choice,
                                 scaling)))

binary_form_from_invariants(ring, degree, invariants, as_form, Karg, invariant_choice, scaling) ==
    IF degree \in {2, 3} /\ Len(invariants) # 1
    THEN Raised("ValueError", CountError, <<"binary_form_from_invariants">>)
    ELSE IF degree \notin {2, 3, 5}
    THEN Raised("NotImplementedError", DegreeError(degree),
                <<"binary_form_from_invariants">>)
    ELSE Assemble(ring, degree, as_form,
                  After(<<"binary_form_from_invariants">>,
                        Delegate(ring, degree, invariants, Karg, invariant_choice,
                                 scaling)))

(***************************************************************************)
(* The arguments of the calls                                              *)
(***************************************************************************)
\* Bounds of the arguments drawn.
MaxResidue == 6

MaxDegree == 7

MaxNum == 3

MaxDen == 2

MaxWeight == 3

\* The domains: QQ and the prime fields GF(2), GF(3), GF(5), GF(7), GF(11).
Rings == {0, 2, 3, 5, 7, 11}

Min(a, b) == IF a < b THEN a ELSE b

Residues(ch) == {<<n, 1>> : n \in 0..Min(ch - 1, MaxResidue)}

\* Lists of length n over a set of values.
Lists(S, n) == [1..n -> S]

Q(n, d) == Norm(0, n, d)

\* Rational Clebsch invariants: closed-form and general cases, with and
\* without a common weighted divisor, with and without the syzygy.
RationalQuintics ==
    { <<Q(1, 1), Q(-1, 1), Q(-1, 1), Q(1, 1)>>,
      <<Q(1, 1), Q(-1, 1), Q(-1, 1), Q(-1, 1)>>,
      <<Q(1, 1), Q(-1, 1), Q(-1, 1), Q(2, 1)>>,
      <<Q(4, 1), Q(-16, 1), Q(-64, 1), Q(512, 1)>>,
      <<Q(4, 1), Q(-16, 1), Q(-64, 1), Q(-512, 1)>>,
      <<Q(4, 1), Q(-16, 1), Q(-64, 1), Q(2, 1)>>,
      <<Q(1, 4), Q(-1, 16), Q(-1, 64), Q(1, 512)>>,
      <<Q(1, 4), Q(-1, 16), Q(-1, 64), Q(-1, 512)>>,
      <<Q(1, 1), Q(3, 1), Q(3, 1), Q(3, 1)>>,
      <<Q(1, 1), Q(3, 1), Q(3, 1), Q(-3, 1)>>,
      <<Q(1, 1), Q(0, 1), Q(0, 1), Q(0, 1)>>,
      <<Q(0, 1), Q(0, 1), Q(-2, 1), Q(6, 1)>>,
      <<Q(0, 1), Q(3, 1), Q(3, 1), Q(0, 1)>>,
      <<Q(3, 1), Q(6, 1), Q(12, 1), Q(0, 1)>>,
      <<Q(1, 1), Q(-1, 1), Q(-1, 1)>>,
      <<Q(4, 1), Q(-16, 1), Q(-64, 1)>>,
      <<Q(1, 4), Q(-1, 16), Q(-1, 64)>>,
      <<Q(1, 1), Q(1, 1), Q(1, 1)>>,
      <<Q(1, 1), Q(3, 1), Q(3, 1)>>,
      <<Q(1, 1), Q(0, 1), Q(0, 1)>>,
      <<Q(0, 1), Q(0, 1), Q(0, 1)>>,
      <<Q(0, 1), Q(3, 1), Q(0, 1)>>,
      <<Q(0, 1), Q(3, 1), Q(3, 1)>>,
      <<Q(0, 1), Q(0, 1), Q(-2, 1)>>,
      <<Q(3, 1), Q(6, 1), Q(12, 1)>> }

\* Lists with the wrong number of invariants.
Miscounted(ring) ==
    LET S == IF ring = 0 THEN {Q(0, 1), Q(2, 1)} ELSE {Zero(ring), One(ring)}
    IN  UNION {Lists(S, n) : n \in {0, 1, 2, 5}}

QuinticLists(ring) ==
    Miscounted(ring) \cup
    (IF ring = 0 THEN RationalQuintics
     ELSE Lists(Residues(ring), 3) \cup Lists(Residues(ring), 4))

Choices == {Absent, "default", "clebsch", "unknown"}

\* Discriminant values.
Discriminants(ring) ==
    IF ring = 0 THEN {Q(0, 1), Q(1, 1), Q(-3, 1), Q(1, 2)} ELSE Residues(ring)

DiscriminantChoices == {Absent, "default", "discriminant", "unknown"}

\* What the dispatcher is called with: up to two discriminant values for
\* any degree, and the lists of three Clebsch invariants.
FormLists(ring) ==
    UNION {Lists(Discriminants(ring), n) : n \in 0..2} \cup
    {l \in QuinticLists(ring) : Len(l) = 3}

FormChoices == {Absent, "discriminant", "unknown"}

FormScalings == {Absent, "coprime"}

\* Arguments of reduce_invariants: rationals n/d and -1 and 0; any weights
\* for one or two invariants, the weights of the quintic's invariants for
\* three and four; and the example [6/5, 12, 16] with weights [1, 2, 3].
ReduceValues ==
    {Q(n, d) : n \in 1..MaxNum, d \in 1..MaxDen} \cup {Q(-1, 1), Q(0, 1)}

ReduceInputs ==
    UNION {Lists(ReduceValues, n) \X Lists(1..MaxWeight, n) : n \in 1..2}
    \cup (Lists(ReduceValues, 3) \X {<<1, 2, 3>>})
    \cup (Lists(ReduceValues, 4) \X {<<2, 4, 6, 9>>})
    \cup {<<<<Q(6, 5), Q(12, 1), Q(16, 1)>>, <<1, 2, 3>>>>}

Scalings == {Absent, "none", "normalized", "coprime", "unknown"}

\* K: left out, the field of the invariants, and GF(5) for rational
\* invariants.
Domains(ring) == {None, ring} \cup (IF ring = 0 THEN {5} ELSE {})

(***************************************************************************)
(* The caller                                                              *)
(***************************************************************************)
NoCall ==
    [fn |-> "none", ring |-> 0, degree |-> 0, invariants |-> <<>>,
     as_form |-> FALSE, K |-> None, invariant_choice |-> Absent,
     scaling |-> Absent, weights |-> <<>>]

NoResult == [kind |-> "none", msg |-> <<>>, value |-> <<>>, calls |-> <<>>]

Init == pc = "idle" /\ call = NoCall /\ result = NoResult

CallQuintic ==
    /\ pc = "idle"
    /\ \E ring \in Rings :
       \E invariants \in QuinticLists(ring) :
       \E Karg \in Domains(ring) :
       \E invariant_choice \in Choices :
       \E scaling \in Scalings :
          /\ call' = [NoCall EXCEPT !.fn = "binary_quintic_from_invariants",
                                    !.ring = ring, !.invariants = invariants,
                                    !.K = Karg,
                                    !.invariant_choice = invariant_choice,
                                    !.scaling = scaling]
          /\ result' = binary_quintic_from_invariants(ring, invariants, Karg,
                                                      invariant_choice, scaling)
    /\ pc' = "returned"

\* The caller drops the outcome and is ready for the next call.
Return ==
    /\ pc = "returned"
    /\ pc' = "idle"
    /\ call' = NoCall
    /\ result' = NoResult

CallForm ==
    /\ pc = "idle"
    /\ \E ring \in Rings :
       \E degree \in 0..MaxDegree :
       \E invariants \in FormLists(ring) :
       \E as_form \in BOOLEAN :
       \E invariant_choice \in FormChoices :
       \E scaling \in FormScalings :
          /\ call' = [NoCall EXCEPT !.fn = "binary_form_from_invariants",
                                    !.ring = ring, !.degree = degree,
                                    !.invariants = invariants,
                                    !.as_form = as_form,
                                    !.invariant_choice = invariant_choice,
                                    !.scaling = scaling]
          /\ result' = binary_form_from_invariants(ring, degree, invariants,
                           as_form, None, invariant_choice, scaling)
    /\ pc' = "returned"

CallQuadratic ==
    /\ pc = "idle"
    /\ \E ring \in Rings :
       \E discriminant \in Discriminants(ring) :
       \E invariant_choice \in DiscriminantChoices :
          /\ call' = [NoCall EXCEPT !.fn = "binary_quadratic_from_invariants",
                                    !.ring = ring, !.degree = 2,
                                    !.invariants = <<discriminant>>,
                                    !.invariant_choice = invariant_choice]
          /\ result' = binary_quadratic_from_invariants(Scalar(discriminant),
                                                        invariant_choice)
    /\ pc' = "returned"

CallCubic ==
    /\ pc = "idle"
    /\ \E ring \in Rings :
       \E discriminant \in Discriminants(ring) :
       \E invariant_choice \in DiscriminantChoices :
          /\ call' = [NoCall EXCEPT !.fn = "binary_cubic_from_invariants",
                                    !.ring = ring, !.degree = 3,
                                    !.invariants = <<discriminant>>,
                                    !.invariant_choice = invariant_choice]
          /\ result' = binary_cubic_from_invariants(Scalar(discriminant),
                                                    invariant_choice)
    /\ pc' = "returned"

CallReduce ==
    /\ pc = "idle"
    /\ \E input \in ReduceInputs :
          /\ call' = [NoCall EXCEPT !.fn = "reduce_invariants",
                                    !.invariants = input[1],
                                    !.weights = input[2]]
          /\ result' = reduce_invariants(0, input[1], input[2])
    /\ pc' = "returned"

Next == CallReduce \/ CallQuadratic \/ CallCubic \/ CallQuintic \/ CallForm \/ Return

Spec == Init /\ [][Next]_vars

(***************************************************************************)
(* Properties of the dispatcher                                            *)
(***************************************************************************)
\* The call in the state has run to its end.
Finished(fn) == pc = "returned" /\ call.fn = fn

\* Two outcomes agree in what the caller observes.
SameOutcome(a, b) == a.kind = b.kind /\ a.msg = b.msg /\ a.value = b.value

\* The degree-specific routine applied to the discriminant value d.
OnDiscriminant(degree, d, invariant_choice) ==
    IF degree = 2
    THEN binary_quadratic_from_invariants(Scalar(d), invariant_choice)
    ELSE binary_cubic_from_invariants(Scalar(d), invariant_choice)

\* C1: for degree 2 and 3 and a one-element list [d], the dispatcher with
\* as_form=False has the outcome of the degree's routine applied to the
\* discriminant value d: (1,0,0) for d = 0 and (0,1,0) for d # 0 in degree 2,
\* (0,1,-1,0) for d # 0 and the double-root error for d = 0 in degree 3.
C1_DispatcherAgreesWithRoutine ==
    (/\ Finished("binary_form_from_invariants")
     /\ call.degree \in {2, 3}
     /\ Len(call.invariants) = 1
     /\ ~call.as_form
     /\ call.scaling = Absent)
    => SameOutcome(result, OnDiscriminant(call.degree, call.invariants[1],
                                          call.invariant_choice))

\* C2: every degree outside {2, 3, 5} ends in NotImplementedError with the
\* message 'No reconstruction for binary forms of degree <d> implemented.',
\* and no degree-specific routine is called.
C2_UnsupportedDegreeMessage ==
    (Finished("binary_form_from_invariants") /\ call.degree \notin {2, 3, 5})
    => /\ result.kind = "NotImplementedError"
       /\ result.msg = <<"No", "reconstruction", "for", "binary", "forms", "of",
                         "degree", DecStr(call.degree), "implemented.">>
       /\ result.calls = <<"binary_form_from_invariants">>

\* C3: for degree 2 or 3 and a list whose length is not 1, the dispatcher
\* ends in the count error and has called no routine, also when
\* invariant_choice is unknown.
C3_CountErrorBeforeDelegation ==
    (/\ Finished("binary_form_from_invariants")
     /\ call.degree \in {2, 3}
     /\ Len(call.invariants) # 1)
    => /\ result.kind = "ValueError"
       /\ result.msg = CountError
       /\ result.calls = <<"binary_form_from_invariants">>

\* An empty list for degree 2 with an unknown invariant_choice ended in the
\* count error.
C3_Witness ==
    /\ Finished("binary_form_from_invariants")
    /\ call.degree = 2
    /\ call.invariants = <<>>
    /\ call.invariant_choice = "unknown"
    /\ result.msg = CountError

(***************************************************************************)
(* Properties of the quintic's validation                                  *)
(***************************************************************************)
\* The tags of the call in the state, with the defaults filled in.
ChoiceTag == Keyword(call.invariant_choice, "clebsch")

ScalingTag == Keyword(call.scaling, "none")

ValidTags ==
    ChoiceTag \in {"default", "clebsch"} /\ ScalingTag \in {"none", "normalized", "coprime"}

ChoiceError ==
    <<"Unknown", "choice", "of", "invariants", ChoiceTag, "for", "a", "binary",
      "quintic">>

ScalingError == <<"Unknown", "scaling", "option", "'", ScalingTag, "'.">>

\* The domain of the call in the state.
Domain == IF call.K = None THEN call.ring ELSE call.K

\* C4: a list whose length is not 3 or 4, with valid tags, ends in the count
\* error ('... requires 3 or 4 invariants.') in every scaling mode and over
\* every domain, those of characteristic 2, 3 and 5 included.
C4_CountErrorForEveryLength ==
    (/\ Finished("binary_quintic_from_invariants")
     /\ ValidTags
     /\ Len(call.invariants) \notin {3, 4})
    => result.kind = "ValueError" /\ result.msg = QuinticCountError

\* The errors of validation: the tags, the count, the syzygy.
EndsInInvalidInput ==
    /\ Finished("binary_quintic_from_invariants")
    /\ result.kind = "ValueError"
    /\ result.msg \in {ChoiceError, ScalingError, QuinticCountError, SyzygyError}

\* C5 as stated: a call that ends in a validation error has done no
\* algebraic work before it; reduce_invariants has not run.
C5_InvalidInputBeforeAnyWork ==
    EndsInInvalidInput => result.calls = <<"binary_quintic_from_invariants">>

\* C5, amended: a tag error comes before any step.  The count error and the
\* syzygy error come after M, N and R2 are computed.  reduce_invariants has
\* run before a validation error exactly when the error is the syzygy error
\* and scaling is 'coprime'.
C5_ValidationOrder ==
    EndsInInvalidInput =>
       /\ result.msg \in {ChoiceError, ScalingError}
             => result.calls = <<"binary_quintic_from_invariants">>
       /\ result.msg = QuinticCountError
             => result.calls = <<"binary_quintic_from_invariants", "M", "N", "R2">>
       /\ result.msg = SyzygyError
             => result.calls =
                   IF ScalingTag = "coprime"
                   THEN <<"binary_quintic_from_invariants", "reduce_invariants",
                          "M", "N", "R2">>
                   ELSE <<"binary_quintic_from_invariants", "M", "N", "R2">>

\* Four rational invariants that fail the syzygy, with scaling='coprime':
\* the reduction ran before the error.
C5_Witness ==
    /\ EndsInInvalidInput
    /\ call.ring = 0
    /\ Len(call.invariants) = 4
    /\ call.scaling = "coprime"
    /\ result.msg = SyzygyError
    /\ result.calls[2] = "reduce_invariants"

\* M, N and R2 of the first three invariants of the call in the state.
CallM ==
    ClebschM(Domain, call.invariants[1], call.invariants[2], call.invariants[3])

CallN ==
    ClebschN(Domain, call.invariants[1], call.invariants[2], call.invariants[3])

CallR2 ==
    ClebschR2(Domain, call.invariants[1], call.invariants[2], call.invariants[3])

SatisfiesSyzygy == Pow(Domain, call.invariants[4], 2) = CallR2

Validated4 ==
    /\ Finished("binary_quintic_from_invariants")
    /\ ValidTags
    /\ Len(call.invariants) = 4
    /\ Domain \notin {2, 3, 5}

\* The case split and the formulas on A, B, C, M, N of the call in the state
\* and the supplied R.
WithSuppliedR ==
    AtLeaf(Domain,
           [A |-> call.invariants[1], B |-> call.invariants[2],
            C |-> call.invariants[3], M |-> CallM, N |-> CallN,
            R |-> call.invariants[4]],
           Leaf(CallM, CallN, call.invariants[4], call.invariants[1],
                call.invariants[2]),
           ScalingTag, <<>>)

\* C6: four invariants [A, B, C, R] over a domain of characteristic not 2, 3
\* or 5, with valid tags, end in the syzygy error exactly when R^2 # R2, in
\* scaling 'coprime' as in the other modes; when R^2 = R2 the supplied R is
\* the R of the case split and the formulas.
C6_SyzygyDecidesAcceptance ==
    Validated4 =>
       /\ (result.kind = "ValueError" /\ result.msg = SyzygyError) <=> ~SatisfiesSyzygy
       /\ (SatisfiesSyzygy /\ ScalingTag # "coprime")
             => SameOutcome(result, WithSuppliedR)

(***************************************************************************)
(* Properties of the case split                                            *)
(***************************************************************************)
Validated ==
    /\ Finished("binary_quintic_from_invariants")
    /\ ValidTags
    /\ Domain \notin {2, 3, 5}
    /\ \/ Len(call.invariants) = 3
       \/ Len(call.invariants) = 4 /\ SatisfiesSyzygy

\* R vanishes: the supplied R, or the root (or fifth power) of R2.
RVanishes ==
    IF Len(call.invariants) = 4 THEN IsZero(call.invariants[4]) ELSE IsZero(CallR2)

Gave(tuple) ==
    /\ result.kind = "ok"
    /\ result.value = PyInts(tuple)
    /\ \A i \in 1..Len(result.calls) : result.calls[i] # "general_formula"

\* C7: for a validated input and every scaling mode the outcome is fixed by
\* the vanishing pattern of (M, N, R, A, B) as tabulated; every other pattern
\* goes through the general formula.
C7_OutcomeByVanishingPattern ==
    Validated =>
       LET M0 == IsZero(CallM)
           N0 == IsZero(CallN)
           A0 == IsZero(call.invariants[1])
           B0 == IsZero(call.invariants[2])
           R0 == RVanishes
       IN  CASE M0 /\ N0 /\ A0 -> result.kind = "ValueError" /\ result.msg = Threefold
             [] M0 /\ N0 /\ ~A0 /\ B0 -> Gave(<<1, 0, 0, 0, 0, 1>>)
             [] M0 /\ N0 /\ ~A0 /\ ~B0 -> Gave(<<0, 1, 0, 0, 1, 0>>)
             [] M0 /\ ~N0 /\ A0 -> Gave(<<1, 0, 0, 0, 1, 0>>)
             [] ~M0 /\ R0 /\ A0 -> Gave(<<1, 0, 10, 0, -15, 0>>)
             [] ~M0 /\ ~R0 /\ A0 /\ B0 -> Gave(<<1, 0, 0, 1, 0, 0>>)
             [] OTHER -> \E i \in 1..Len(result.calls) :
                            result.calls[i] = "general_formula"

(***************************************************************************)
(* Properties of the scalings                                              *)
(***************************************************************************)
\* The scalars t the invariants are rescaled by.
Scalars(ring) ==
    IF ring = 0 THEN {Q(-1, 1), Q(2, 1), Q(1, 2)}
    ELSE {<<t, 1>> : t \in 1..(ring - 1)}

\* (t^2 A, t^4 B, t^6 C, t^9 R)
Rescale(K, I, t) ==
    <<Mul(K, Pow(K, t, 2), I[1]), Mul(K, Pow(K, t, 4), I[2]),
      Mul(K, Pow(K, t, 6), I[3]), Mul(K, Pow(K, t, 9), I[4])>>

\* The rational lists whose computation fits.
Fits(ring, I) == ring # 0 \/ I \in RationalQuintics

\* The call of the state, on other invariants.
SameCallOn(I) ==
    binary_quintic_from_invariants(call.ring, I, call.K, call.invariant_choice,
                                   call.scaling)

Normalized4 ==
    /\ Finished("binary_quintic_from_invariants")
    /\ ValidTags
    /\ ScalingTag = "normalized"
    /\ Len(call.invariants) = 4
    /\ result.kind = "ok"

\* C8: with scaling='normalized' and four invariants (A, B, C, R) that
\* satisfy the syzygy, the call on (t^2 A, t^4 B, t^6 C, t^9 R) returns, for
\* every nonzero t and whenever it succeeds, the tuple the call on
\* (A, B, C, R) returns.
C8_NormalizedIgnoresRescaling ==
    Normalized4 =>
       \A t \in Scalars(call.ring) :
          Fits(call.ring, Rescale(Domain, call.invariants, t)) =>
             LET other == SameCallOn(Rescale(Domain, call.invariants, t))
             IN  other.kind = "ok" => other.value = result.value

\* A call over GF(7) through the general formula with R # 0 and A # 0, and
\* a rescaling to other invariants that succeeds too.
C8_Witness ==
    /\ Normalized4
    /\ call.ring = 7
    /\ ~IsZero(CallM) /\ ~IsZero(call.invariants[4]) /\ ~IsZero(call.invariants[1])
    /\ result.calls[Len(result.calls)] = "general_formula"
    /\ \E t \in Scalars(7) :
          /\ Rescale(7, call.invariants, t) # call.invariants
          /\ SameCallOn(Rescale(7, call.invariants, t)).kind = "ok"

\* The multiplicity of the prime p in the nonzero rational x.
Val(p, x) == Multiplicity(p, Abs(x[1])) - Multiplicity(p, x[2])

\* The primes of the numerators and denominators of a list.
PrimesIn(l) ==
    UNION {PrimeDivisors(Abs(l[i][1])) \cup PrimeDivisors(l[i][2]) : i \in 1..Len(l)}

NonzeroReduce ==
    /\ Finished("reduce_invariants")
    /\ \A i \in 1..Len(call.invariants) : ~IsZero(call.invariants[i])

\* invariants[i] / result[i] is scalar^weights[i] for one scalar: the signs
\* agree, and with e the quotient of the first entry's drop in the
\* multiplicity of p by its weight, every entry drops by e times its weight.
OneCommonScalar(I, res, w) ==
    /\ \A i \in 1..Len(I) : (res[i][1] > 0) <=> (I[i][1] > 0)
    /\ \A p \in PrimesIn(I) \cup PrimesIn(res) :
          LET drop == Val(p, I[1]) - Val(p, res[1])
          IN  /\ drop % w[1] = 0
              /\ \A i \in 1..Len(I) :
                    Val(p, I[i]) - Val(p, res[i]) = (drop \div w[1]) * w[i]

\* min over i of floor(v_p(res[i]) / w[i]) = 0 for every prime p.
NoCommonWeightedDivisor(res, w) ==
    \A p \in PrimesIn(res) :
       SeqMin([i \in 1..Len(res) |-> Val(p, res[i]) \div w[i]]) = 0

\* C9: for nonzero invariants and as many positive weights, reduce_invariants
\* returns a list of the same length with entry i equal to
\* invariants[i] / scalar^weights[i] for one common scalar, and the result has
\* no common weighted divisor; [6/5, 12, 16] with weights [1,2,3] gives
\* [3, 75, 250].
C9_ReducedByOneScalar ==
    NonzeroReduce =>
       /\ result.kind = "ok"
       /\ Len(result.value) = Len(call.invariants)
       /\ OneCommonScalar(call.invariants, result.value, call.weights)
       /\ NoCommonWeightedDivisor(result.value, call.weights)
       /\ (call.invariants = <<Q(6, 5), Q(12, 1), Q(16, 1)>> /\ call.weights = <<1, 2, 3>>)
             => result.value = <<Q(3, 1), Q(75, 1), Q(250, 1)>>

\* [6/5, 12, 16] with weights [1, 2, 3] was reduced to [3, 75, 250].
C9_Witness ==
    /\ NonzeroReduce
    /\ call.invariants = <<Q(6, 5), Q(12, 1), Q(16, 1)>>
    /\ call.weights = <<1, 2, 3>>
    /\ result.value = <<Q(3, 1), Q(75, 1), Q(250, 1)>>

QuinticWeights(I) == IF Len(I) = 3 THEN <<1, 2, 3>> ELSE <<2, 4, 6, 9>>

\* C10: for three or four nonzero invariants I with the quintic's weights w,
\* reduce_invariants(reduce_invariants(I, w), w) = reduce_invariants(I, w),
\* and binary_quintic_from_invariants(reduce_invariants(I, w),
\* scaling='coprime') has the outcome of
\* binary_quintic_from_invariants(I, scaling='coprime').
C10_CoprimeIsIdempotent ==
    /\ (/\ NonzeroReduce
        /\ Len(call.invariants) \in {3, 4}
        /\ call.weights = QuinticWeights(call.invariants))
       => /\ result.kind = "ok"
          /\ SameOutcome(reduce_invariants(0, result.value, call.weights), result)
    /\ (/\ Finished("binary_quintic_from_invariants")
        /\ ValidTags
        /\ ScalingTag = "coprime"
        /\ Len(call.invariants) \in {3, 4}
        /\ \A i \in 1..Len(call.invariants) : ~IsZero(call.invariants[i]))
       => LET reduced == reduce_invariants(call.ring, call.invariants,
                                           QuinticWeights(call.invariants))
          IN  /\ reduced.kind = "ok"
              /\ SameOutcome(SameCallOn(reduced.value), result)

\* Rational invariants with a common weighted divisor, with scaling='coprime':
\* the call returned the tuple of the reduced invariants.
C10_Witness ==
    /\ Finished("binary_quintic_from_invariants")
    /\ call.scaling = "coprime"
    /\ call.invariants = <<Q(4, 1), Q(-16, 1), Q(-64, 1), Q(512, 1)>>
    /\ result.kind = "ok"
    /\ reduce_invariants(0, call.invariants, <<2, 4, 6, 9>>).value
          = <<Q(1, 1), Q(-1, 1), Q(-1, 1), Q(1, 1)>>

(***************************************************************************)
(* Properties of the quadratic                                             *)
(***************************************************************************)
\* c1^2 - 4*c0*c2 of a coefficient tuple, in the field of the discriminant.
DiscriminantOf(K, c) ==
    Sub(K, Pow(K, Norm(K, c[2][1], c[2][2]), 2),
           MulInt(K, 4, Mul(K, Norm(K, c[1][1], c[1][2]), Norm(K, c[3][1], c[3][2]))))

\* C11: with invariant_choice 'default' or 'discriminant' the tuple
\* (c0, c1, c2) binary_quadratic_from_invariants(d) returns has
\* c1^2 - 4*c0*c2 = 0 exactly when d = 0; with any other invariant_choice the
\* call ends in ValueError and returns no tuple.
C11_QuadraticRoundTrip ==
    Finished("binary_quadratic_from_invariants") =>
       IF Keyword(call.invariant_choice, "default") \in {"default", "discriminant"}
       THEN /\ result.kind = "ok"
            /\ Len(result.value) = 3
            /\ IsZero(DiscriminantOf(call.ring, result.value))
                  <=> IsZero(call.invariants[1])
       ELSE result.kind = "ValueError" /\ result.value = <<>>

\* The discriminant 0 over GF(7) gave a form with a double root.
C11_Witness ==
    /\ Finished("binary_quadratic_from_invariants")
    /\ call.ring = 7
    /\ call.invariant_choice = "discriminant"
    /\ IsZero(call.invariants[1])
    /\ result.kind = "ok"
    /\ IsZero(DiscriminantOf(7, result.value))

(***************************************************************************)
(* Properties of the rescaling for a non-square R2                         *)
(***************************************************************************)
\* The invariants the routine works on: the reduced ones for
\* scaling='coprime'.
Working ==
    IF ScalingTag = "coprime" /\ Len(call.invariants) \in {3, 4}
    THEN reduce_invariants(call.ring, call.invariants,
                           QuinticWeights(call.invariants)).value
    ELSE call.invariants

\* The call rescaled three invariants whose R2 is no square.
RescaledCall ==
    /\ Finished("binary_quintic_from_invariants")
    /\ Len(call.invariants) = 3
    /\ \E i \in 1..Len(result.calls) : result.calls[i] = "rescale"

WorkingM == ClebschM(Domain, Working[1], Working[2], Working[3])

WorkingN == ClebschN(Domain, Working[1], Working[2], Working[3])

WorkingR2 == ClebschR2(Domain, Working[1], Working[2], Working[3])

\* A, B, C, M, N, R after the rescaling.
Updated ==
    ChooseR(Domain, Working, Working[1], Working[2], Working[3],
            WorkingM, WorkingN, WorkingR2)

\* C12: when three invariants are given and R2 is no square, after
\* [A,B,C] <- [R2*A, R2^2*B, R2^3*C], [M,N] <- [R2^3*M, R2^4*N], R <- R2^5
\* the updated M and N are 2AB - 3C and (AC - B^2)/2 of the updated A, B, C,
\* the R2 of the updated values is R^2 = (old R2)^10, R is not zero, and M, N,
\* A, B vanish exactly when they did before.
C12_RescalingIsConsistent ==
    RescaledCall =>
       /\ ~IsSquare(Domain, WorkingR2)
       /\ Updated.M = ClebschM(Domain, Updated.A, Updated.B, Updated.C)
       /\ Updated.N = ClebschN(Domain, Updated.A, Updated.B, Updated.C)
       /\ ClebschR2(Domain, Updated.A, Updated.B, Updated.C) = Pow(Domain, Updated.R, 2)
       /\ Pow(Domain, Updated.R, 2) = Pow(Domain, WorkingR2, 10)
       /\ ~IsZero(Updated.R)
       /\ IsZero(Updated.M) <=> IsZero(WorkingM)
       /\ IsZero(Updated.N) <=> IsZero(WorkingN)
       /\ IsZero(Updated.A) <=> IsZero(Working[1])
       /\ IsZero(Updated.B) <=> IsZero(Working[2])
       /\ SameOutcome(result,
                      AtLeaf(Domain, Updated,
                             Leaf(Updated.M, Updated.N, Updated.R, Updated.A,
                                  Updated.B), ScalingTag, <<>>))

\* Three invariants over GF(7) with a non-square R2 and N # 0 were rescaled
\* and went through the general formula.
C12_Witness ==
    /\ RescaledCall
    /\ call.ring = 7
    /\ ~IsZero(WorkingN)
    /\ Updated.A # Working[1]
    /\ result.kind = "ok"
    /\ result.calls[Len(result.calls)] = "general_formula"

====
